---- MODULE Spec2Model ----
(***************************************************************************)
(* Gaussian-process posterior of "6 - Gaussian Processes/Gaussian          *)
(* Processes.ipynb": the squared-exponential kernel, the Gram matrix, its  *)
(* inversion and GPpredict.                                                *)
(*                                                                         *)
(* Numbers.  The notebook computes in float64.  The model computes in      *)
(* exact rational arithmetic, a number being <<n, d>> with d > 0 and       *)
(* gcd(n, d) = 1, and keeps the two float64 values the code can produce    *)
(* that are no rationals' business: NaN (<<0, 0>>) from 0.0/0 and the      *)
(* exact 0.0 np.exp returns once its argument underflows.                  *)
(*                                                                         *)
(* Length scale.  exp(-(x1-x2)^2 / (2 l^2)) is rational for no rational    *)
(* l and x1 /= x2, so the model names a length scale by the integer c      *)
(* with   l = sign(c) / sqrt(2 ln |c|)   (|c| >= 2),   l = 0 for c = 0.    *)
(* Then 2*l*l = 1 / ln |c| and exp(-(x1-x2)^2 / (2*l*l)) = |c|^-(x1-x2)^2  *)
(* exactly, for inputs on the integer grid.                                *)
(***************************************************************************)
EXTENDS Integers, Sequences, FiniteSets

-----------------------------------------------------------------------------
(* Exact arithmetic standing for float64. *)

Abs(n) == IF n < 0 THEN -n ELSE n

RECURSIVE GCD(_, _)
GCD(a, b) == IF b = 0 THEN a ELSE GCD(b, a % b)

RECURSIVE Pow(_, _)
Pow(b, e) == IF e = 0 THEN 1 ELSE b * Pow(b, e - 1)

NaN == <<0, 0>>
IsNaN(a) == a[2] = 0

Norm(n, d) ==
    LET g == GCD(Abs(n), Abs(d))
        s == IF d < 0 THEN -1 ELSE 1
    IN  <<(s * n) \div g, (s * d) \div g>>

Rat(n) == <<n, 1>>
Zero == Rat(0)
One == Rat(1)

RNeg(a) == IF IsNaN(a) THEN NaN ELSE <<-a[1], a[2]>>

RAdd(a, b) ==
    IF IsNaN(a) \/ IsNaN(b) THEN NaN
    ELSE LET g == GCD(a[2], b[2])
         IN  Norm(a[1] * (b[2] \div g) + b[1] * (a[2] \div g), (a[2] \div g) * b[2])

RSub(a, b) == RAdd(a, RNeg(b))

RMul(a, b) ==
    IF IsNaN(a) \/ IsNaN(b) THEN NaN
    ELSE LET g1 == GCD(Abs(a[1]), b[2])
             g2 == GCD(Abs(b[1]), a[2])
         IN  IF a[1] = 0 \/ b[1] = 0 THEN Zero
             ELSE <<(a[1] \div g1) * (b[1] \div g2), (a[2] \div g2) * (b[2] \div g1)>>

\* a / b for b /= 0 (the only division the model performs is by a nonzero pivot)
RDiv(a, b) ==
    IF IsNaN(a) \/ IsNaN(b) THEN NaN
    ELSE RMul(a, Norm(b[2], b[1]))

\* a >= 0; every comparison with NaN is False, as in IEEE 754
RNonNeg(a) == ~IsNaN(a) /\ a[1] >= 0
RLeq(a, b) == RNonNeg(RSub(b, a))

\* Python's bool in arithmetic: True is 1, False is 0
Bool(p) == IF p THEN One ELSE Zero

-----------------------------------------------------------------------------
(* numpy arrays: a vector is a sequence, a matrix a sequence of rows. *)

RECURSIVE SumFrom(_, _)
SumFrom(s, k) == IF k > Len(s) THEN Zero ELSE RAdd(s[k], SumFrom(s, k + 1))

SumSeq(s) == SumFrom(s, 1)

Dot(u, v) == SumSeq([k \in 1..Len(u) |-> RMul(u[k], v[k])])

\* row vector @ matrix: (1,N) @ (N,M) -> (1,M); M is the matrix's column count
VecMat(u, M, cols) == [j \in 1..cols |-> SumSeq([k \in 1..Len(u) |-> RMul(u[k], M[k][j])])]

Minor(M, r, c) ==
    LET n == Len(M)
        skip(k, x) == IF k < x THEN k ELSE k + 1
    IN  [i \in 1..(n - 1) |-> [j \in 1..(n - 1) |-> M[skip(i, r)][skip(j, c)]]]

RECURSIVE Det(_)
Det(M) ==
    IF Len(M) = 0 THEN One
    ELSE IF Len(M) = 1 THEN M[1][1]
    ELSE IF Len(M) = 2 THEN RSub(RMul(M[1][1], M[2][2]), RMul(M[1][2], M[2][1]))
    ELSE SumSeq([j \in 1..Len(M) |->
            RMul(IF j % 2 = 1 THEN M[1][j] ELSE RNeg(M[1][j]), Det(Minor(M, 1, j)))])

HasNaN(M) == \E i \in 1..Len(M) : \E j \in 1..Len(M[i]) : IsNaN(M[i][j])

\* np.linalg.inv raises LinAlgError("Singular matrix") on an exactly zero pivot
Singular(M) == ~HasNaN(M) /\ Det(M) = Zero

\* np.linalg.inv(M) for a matrix it accepts: the empty matrix for N = 0, NaN in
\* every entry once M holds a NaN, and otherwise the inverse (adjugate over
\* determinant, which is what LU with exact arithmetic returns)
MatInv(M) ==
    LET n == Len(M)
    IN  IF HasNaN(M) THEN [i \in 1..n |-> [j \in 1..n |-> NaN]]
        ELSE LET d == Det(M)
                 cof(i, j) == IF (i + j) % 2 = 0 THEN Det(Minor(M, j, i))
                              ELSE RNeg(Det(Minor(M, j, i)))
             IN  [i \in 1..n |-> [j \in 1..n |-> RDiv(cof(i, j), d)]]

-----------------------------------------------------------------------------
(* The kernel (cell at lines 279-282). *)

\* d2 from which np.exp(-d2 * ln|c|) is exactly 0.0 in float64 for every |c| >= 2
\* (exp underflows below about -745.13, and ln 2 * 1075 > 745.13)
ExpUnderflow == 1075

\* np.exp(-(x1-x2)**2 / (2*l*l)) with d = x1 - x2 and l named by c. l = 0 divides
\* a float64 by zero: -d*d / 0 is -inf (exp gives 0.0) for d /= 0 and NaN for d = 0.
SqExp(d, c) ==
    IF c = 0 THEN (IF d = 0 THEN NaN ELSE Zero)
    ELSE IF d * d >= ExpUnderflow THEN Zero
    ELSE <<1, Pow(Abs(c), d * d)>>

\* kernel with the noise term squared
kernel_NoiseSquared(x1, x2, sk, c, sn) ==
    RAdd(RMul(RMul(sk, sk), SqExp(x1 - x2, c)), RMul(RMul(sn, sn), Bool(x1 = x2)))

\* kernel with the difference left unsquared: exp(-(x1-x2) / (2*l*l))
kernel_NoSquare(x1, x2, sk, c, sn) ==
    LET e == IF c = 0 \/ (x1 - x2) * (x1 - x2) >= ExpUnderflow THEN SqExp(x1 - x2, c)
             ELSE IF x1 >= x2 THEN <<1, Pow(Abs(c), x1 - x2)>>
             ELSE <<Pow(Abs(c), x2 - x1), 1>>
    IN  RAdd(RMul(RMul(sk, sk), e), RMul(sn, Bool(x1 = x2)))

kernel(x1, x2, sk, c, sn) ==
    RAdd(RMul(RMul(sk, sk), SqExp(x1 - x2, c)), RMul(sn, Bool(x1 = x2)))

\* compute_K with the noise added by index, on the diagonal only
compute_K_DiagonalNoise(xs, sk, c, sn) ==
    [i \in 1..Len(xs) |-> [j \in 1..Len(xs) |->
        RAdd(kernel(xs[i], xs[j], sk, c, Zero), RMul(sn, Bool(i = j)))]]

\* compute_K(X, sigma_kernel, l, sigma_noise): the covariance matrix of the
\* training inputs, K[i][j] = k(x_i, x_j)
compute_K(xs, sk, c, sn) ==
    [i \in 1..Len(xs) |-> [j \in 1..Len(xs) |-> kernel(xs[i], xs[j], sk, c, sn)]]

-----------------------------------------------------------------------------
(* Bounds and input sets of the model. *)

\* largest training set
MaxN == 2
\* a query point far from every training input: (FarX - x)^2 >= ExpUnderflow
FarX == 40

XVals == {0, 1, 2}
YVals == {-1, 2}
\* a query at 2 mirrors the query at 0 (the kernel reads only |x1 - x2|)
Queries == {0, 1, FarX}
SigmaKernelVals == {Rat(0), Rat(2)}
SigmaNoiseVals == {Rat(0), <<1, 2>>}
\* length scales, named as in the module's header: negative, zero, positive
LVals == {-3, 0, 2}

SeqsUpTo(S, n) == UNION {[1..k -> S] : k \in 0..n}

\* matrices a caller may hand to GPpredict in place of an inverse
AnyMatrices(n) ==
    { [i \in 1..n |-> [j \in 1..n |-> Bool(i = j)]],
      [i \in 1..n |-> [j \in 1..n |-> Bool(i <= j)]],
      [i \in 1..n |-> [j \in 1..n |-> Norm(i - 2 * j, j)]] }

-----------------------------------------------------------------------------
(* Notebook state. *)

VARIABLES
    sigma_kernel,   \* global, lines 279 and 368
    l,              \* global, lines 280 and 369 (named by c, see the header)
    sigma_noise,    \* global, line 242
    X,              \* training inputs, line 246
    Y,              \* training targets, line 248
    x,              \* the query point x[i] of the prediction loop, lines 325 and 382
    K,              \* what compute_K returned at lines 323 and 371 (a temporary)
    Kinv,           \* global, lines 323 and 371
    bound,          \* the names that hold a value, among them "K" and "Kinv"
    call,           \* arguments of the last GPpredict call, <<>> before the first
    ret,            \* what the last GPpredict call returned, <<>> before the first
    exc,            \* the exception the last statement raised, "" for none
    threads,        \* the frames of the GPpredict calls in progress, one per caller
    split           \* the last shuffle_and_split call and its result, <<>> before

vars == <<sigma_kernel, l, sigma_noise, X, Y, x, K, Kinv, bound, call, ret, exc,
          threads, split>>

\* GPpredict with mu = Kstar @ y_data, the inverse forgotten
GPpredict_MeanNoKinv(x_new, x_data, y_data, Ki) ==
    LET N == Len(y_data)
        Kstar == [i \in 1..N |-> kernel(x_data[i], x_new, sigma_kernel, l, sigma_noise)]
    IN  [mu |-> Dot(Kstar, y_data),
         sigma |-> RSub(kernel(x_new, x_new, sigma_kernel, l, sigma_noise),
                        Dot(VecMat(Kstar, Ki, N), Kstar))]

\* GPpredict with sigma = kernel(x_new,x_new) - Kstar @ Kstar.T, the inverse forgotten
GPpredict_SigmaNoKinv(x_new, x_data, y_data, Ki) ==
    LET N == Len(y_data)
        Kstar == [i \in 1..N |-> kernel(x_data[i], x_new, sigma_kernel, l, sigma_noise)]
    IN  [mu |-> Dot(VecMat(Kstar, Ki, N), y_data),
         sigma |-> RSub(kernel(x_new, x_new, sigma_kernel, l, sigma_noise),
                        Dot(Kstar, Kstar))]

\* GPpredict with Kstar built without the noise term: kernel(..., sigma_kernel, l, 0)
GPpredict_NoiseFreeKstar(x_new, x_data, y_data, Ki) ==
    LET N == Len(y_data)
        Kstar == [i \in 1..N |-> kernel(x_data[i], x_new, sigma_kernel, l, Zero)]
    IN  [mu |-> Dot(VecMat(Kstar, Ki, N), y_data),
         sigma |-> RSub(kernel(x_new, x_new, sigma_kernel, l, sigma_noise),
                        Dot(VecMat(Kstar, Ki, N), Kstar))]

\* GPpredict with sigma = - Kstar @ Kinv @ Kstar.T, the prior variance dropped
GPpredict_NoPrior(x_new, x_data, y_data, Ki) ==
    LET N == Len(y_data)
        Kstar == [i \in 1..N |-> kernel(x_data[i], x_new, sigma_kernel, l, sigma_noise)]
    IN  [mu |-> Dot(VecMat(Kstar, Ki, N), y_data),
         sigma |-> RNeg(Dot(VecMat(Kstar, Ki, N), Kstar))]

\* GPpredict with Kstar[0,i] = kernel(x_data[0], ...): the loop index not used
GPpredict_FirstInputOnly(x_new, x_data, y_data, Ki) ==
    LET N == Len(y_data)
        Kstar == [i \in 1..N |-> kernel(x_data[1], x_new, sigma_kernel, l, sigma_noise)]
    IN  [mu |-> Dot(VecMat(Kstar, Ki, N), y_data),
         sigma |-> RSub(kernel(x_new, x_new, sigma_kernel, l, sigma_noise),
                        Dot(VecMat(Kstar, Ki, N), Kstar))]

\* GPpredict with the operands of the subtraction swapped
GPpredict_SigmaSwapped(x_new, x_data, y_data, Ki) ==
    LET N == Len(y_data)
        Kstar == [i \in 1..N |-> kernel(x_data[i], x_new, sigma_kernel, l, sigma_noise)]
    IN  [mu |-> Dot(VecMat(Kstar, Ki, N), y_data),
         sigma |-> RSub(Dot(VecMat(Kstar, Ki, N), Kstar),
                        kernel(x_new, x_new, sigma_kernel, l, sigma_noise))]

\* GPpredict (lines 373-380). sigma_kernel, l and sigma_noise are read from the
\* notebook's globals at the time of the call. mu has shape (1,) and sigma shape
\* (1,1); the model returns their single elements.
GPpredict(x_new, x_data, y_data, Ki) ==
    LET N == Len(y_data)
        Kstar == [i \in 1..N |-> kernel(x_data[i], x_new, sigma_kernel, l, sigma_noise)]
        mu == Dot(VecMat(Kstar, Ki, N), y_data)
        sigma == RSub(kernel(x_new, x_new, sigma_kernel, l, sigma_noise),
                      Dot(VecMat(Kstar, Ki, N), Kstar))
    IN  [mu |-> mu, sigma |-> sigma]

Init ==
    /\ sigma_kernel \in SigmaKernelVals
    /\ l \in LVals
    /\ sigma_noise \in SigmaNoiseVals
    /\ X \in SeqsUpTo(XVals, MaxN)
    /\ Y \in [1..Len(X) -> {Rat(v) : v \in YVals}]
    /\ x \in Queries
    /\ K = <<>>
    /\ Kinv = <<>>
    /\ bound = {}
    /\ call = <<>>
    /\ ret = <<>>
    /\ exc = ""
    /\ threads = <<>>
    /\ split = <<>>

\* the inversion with the failure swallowed: a singular matrix yields zeros
InvertGram_ZerosOnSingular ==
    LET G == compute_K(X, sigma_kernel, l, sigma_noise)
    IN  /\ K' = G
        /\ Kinv' = IF Singular(G)
                   THEN [i \in 1..Len(G) |-> [j \in 1..Len(G) |-> Zero]]
                   ELSE MatInv(G)
        /\ bound' = bound \cup {"K", "Kinv"}
        /\ exc' = ""
        /\ UNCHANGED <<sigma_kernel, l, sigma_noise, X, Y, x, call, ret, threads, split>>

\* Kinv = np.linalg.inv(compute_K(X,sigma_kernel,l,sigma_noise))  (lines 323, 371)
InvertGram ==
    LET G == compute_K(X, sigma_kernel, l, sigma_noise)
    IN  /\ K' = G
        /\ IF Singular(G)
           THEN /\ exc' = "LinAlgError"
                /\ bound' = bound \cup {"K"}
                /\ UNCHANGED Kinv
           ELSE /\ Kinv' = MatInv(G)
                /\ bound' = bound \cup {"K", "Kinv"}
                /\ exc' = ""
        /\ UNCHANGED <<sigma_kernel, l, sigma_noise, X, Y, x, call, ret, threads, split>>

\* y[i], sigma[i] = GPpredict(x[i], X, Y, Kinv)  (lines 329, 386)
Predict ==
    /\ "Kinv" \in bound
    /\ call' = [x_new |-> x, x_data |-> X, y_data |-> Y, Kinv |-> Kinv]
    /\ ret' = GPpredict(x, X, Y, Kinv)
    /\ exc' = ""
    /\ UNCHANGED <<sigma_kernel, l, sigma_noise, X, Y, x, K, Kinv, bound, threads, split>>

\* GPpredict(x[i], X, Y, Ki) called with a matrix of the caller's choosing
PredictWith(Ki) ==
    /\ call' = [x_new |-> x, x_data |-> X, y_data |-> Y, Kinv |-> Ki]
    /\ ret' = GPpredict(x, X, Y, Ki)
    /\ exc' = ""
    /\ UNCHANGED <<sigma_kernel, l, sigma_noise, X, Y, x, K, Kinv, bound, threads, split>>

\* The notebook's experiment cells: invert the Gram matrix, then predict.
Next ==
    \/ InvertGram
    \/ Predict

Spec == Init /\ [][Next]_vars

\* GPpredict as a function of its arguments, the matrix being any matrix.
NextCall == \E Ki \in AnyMatrices(Len(X)) : PredictWith(Ki)

SpecCall == Init /\ [][NextCall]_vars

-----------------------------------------------------------------------------
(* The Gram matrix and the kernel. *)

\* sigma_kernel^2 * exp(-(a - b)^2 / (2 l^2)) for the length scale named by c > 0
\* and |a - b| on the training grid, written as one fraction
SquaredExponential(a, b, sk, c) ==
    Norm(sk[1] * sk[1], sk[2] * sk[2] * Pow(c, (a - b) * (a - b)))

\* C1: for l > 0 every entry K[i][j] of the Gram matrix is
\* sigma_kernel^2 * exp(-(x_i - x_j)^2 / (2 l^2)), plus sigma_noise itself exactly
\* when x_i and x_j are equal as values (so on the diagonal, and off it for
\* repeated inputs).
C1_GramEntries ==
    ("K" \in bound /\ l > 0) =>
        \A i \in 1..Len(X) : \A j \in 1..Len(X) :
            K[i][j] = RAdd(SquaredExponential(X[i], X[j], sigma_kernel, l),
                           IF X[i] = X[j] THEN sigma_noise ELSE Zero)

\* a Gram matrix was built over a repeated input, with noise and signal: the noise
\* sits in an off-diagonal entry
C1_Witness ==
    /\ "K" \in bound /\ l > 0 /\ sigma_noise = <<1, 2>> /\ sigma_kernel = Rat(2)
    /\ Len(X) = 2 /\ X[1] = X[2]
    /\ K[1][2] = <<9, 2>>

\* C3: the kernel is symmetric in its two inputs for every parameter triple, and
\* so is every Gram matrix built from it.
C3_Symmetric ==
    /\ \A a \in XVals \cup Queries : \A b \in XVals \cup Queries :
          kernel(a, b, sigma_kernel, l, sigma_noise)
              = kernel(b, a, sigma_kernel, l, sigma_noise)
    /\ "K" \in bound => \A i \in 1..Len(X) : \A j \in 1..Len(X) : K[i][j] = K[j][i]

\* a Gram matrix over two different inputs whose off-diagonal entries are not zero
C3_Witness ==
    /\ "K" \in bound /\ Len(X) = 2 /\ X[1] /= X[2]
    /\ K[1][2] = K[2][1] /\ K[1][2] /= Zero /\ ~IsNaN(K[1][2])

-----------------------------------------------------------------------------
(* GPpredict. *)

Called == call /= <<>>

\* the cross-covariance K*[i] of the last call
CrossCov(i) == kernel(call.x_data[i], call.x_new, sigma_kernel, l, sigma_noise)

\* the sum over i and j of K*[i] * M[i][j] * v[j]
Bilinear(v, M) ==
    SumSeq([i \in 1..Len(v) |->
        RMul(CrossCov(i), SumSeq([j \in 1..Len(v) |-> RMul(M[i][j], v[j])]))])

\* C2: GPpredict returns mean = K* . Kinv . y and, second, kernel(x_new, x_new)
\* - K* . Kinv . K*^T with K*[i] = kernel(x_i, x_new), for every query, training
\* set and matrix Kinv; K*[i] holds the noise term exactly when x_i = x_new and
\* (for l /= 0) kernel(x_new, x_new) is sigma_kernel^2 + sigma_noise.
C2_PredictFormula ==
    Called =>
        LET N == Len(call.y_data)
            Ks == [i \in 1..N |-> CrossCov(i)]
            prior == kernel(call.x_new, call.x_new, sigma_kernel, l, sigma_noise)
        IN  /\ ret.mu = Bilinear(call.y_data, call.Kinv)
            /\ ret.sigma = RSub(prior, Bilinear(Ks, call.Kinv))
            /\ l /= 0 =>
                 /\ prior = RAdd(RMul(sigma_kernel, sigma_kernel), sigma_noise)
                 /\ \A i \in 1..N :
                      Ks[i] = RAdd(RMul(RMul(sigma_kernel, sigma_kernel),
                                        SqExp(call.x_data[i] - call.x_new, l)),
                                   IF call.x_data[i] = call.x_new
                                   THEN sigma_noise ELSE Zero)

\* a call with an asymmetric matrix, two different inputs, two different targets and
\* a query on one of the inputs, whose two results are neither zero nor NaN
C2_Witness ==
    /\ Called /\ Len(X) = 2 /\ X[1] /= X[2] /\ Y[1] /= Y[2] /\ x = X[1]
    /\ call.Kinv[1][2] /= call.Kinv[2][1]
    /\ sigma_noise /= Zero /\ sigma_kernel /= Zero /\ l /= 0
    /\ ~IsNaN(ret.mu) /\ ret.mu /= Zero /\ ~IsNaN(ret.sigma) /\ ret.sigma /= Zero

Identity(n) == [i \in 1..n |-> [j \in 1..n |-> Bool(i = j)]]

MatMul(A, B) ==
    [i \in 1..Len(A) |-> [j \in 1..Len(A) |->
        SumSeq([k \in 1..Len(A) |-> RMul(A[i][k], B[k][j])])]]

\* the Gram matrix of the last call's training inputs under the current parameters
Gram == compute_K(call.x_data, sigma_kernel, l, sigma_noise)

\* M is the exact inverse of G
IsInverse(M, G) ==
    /\ ~HasNaN(G) /\ ~HasNaN(M)
    /\ MatMul(G, M) = Identity(Len(G))

Distinct(xs) == \A i \in 1..Len(xs) : \A j \in 1..Len(xs) : i /= j => xs[i] /= xs[j]

\* C4: without noise, over pairwise-distinct inputs and with the exact inverse of
\* the Gram matrix, the prediction at a training input x_j is (y_j, 0); for one
\* training point it is (y_1, 0).
C4_NoiseFreeInterpolation ==
    (Called /\ sigma_noise = Zero /\ Distinct(call.x_data) /\ IsInverse(call.Kinv, Gram)) =>
        \A j \in 1..Len(call.x_data) :
            call.x_new = call.x_data[j] =>
                ret.mu = call.y_data[j] /\ ret.sigma = Zero

\* the prediction at the second of two different training inputs, without noise
C4_Witness ==
    /\ Called /\ sigma_noise = Zero /\ Len(X) = 2 /\ X[1] /= X[2] /\ Y[1] /= Y[2]
    /\ IsInverse(call.Kinv, Gram) /\ x = X[2]
    /\ ret.mu = Y[2] /\ ret.sigma = Zero

\* C5: with sigma_noise > 0, over pairwise-distinct inputs and with the exact inverse
\* of the Gram matrix, the prediction at a training input x_j has mean y_j and a
\* variance of at most sigma_noise.
C5_NoisyInterpolation ==
    (Called /\ sigma_noise /= Zero /\ RNonNeg(sigma_noise)
       /\ Distinct(call.x_data) /\ IsInverse(call.Kinv, Gram)) =>
        \A j \in 1..Len(call.x_data) :
            call.x_new = call.x_data[j] =>
                ret.mu = call.y_data[j] /\ RLeq(ret.sigma, sigma_noise)

\* the prediction at the first of two different training inputs, with noise and signal
C5_Witness ==
    /\ Called /\ sigma_noise = <<1, 2>> /\ sigma_kernel = Rat(2)
    /\ Len(X) = 2 /\ X[1] /= X[2] /\ Y[1] /= Y[2]
    /\ IsInverse(call.Kinv, Gram) /\ x = X[1]
    /\ ret.mu = Y[1] /\ RLeq(ret.sigma, sigma_noise)

\* C6: when every cross-covariance K*[i] is 0, GPpredict returns mean 0 and the prior
\* variance kernel(x_new, x_new), for every matrix Kinv of reals and every targets.
C6_FarQuery ==
    (Called /\ ~HasNaN(call.Kinv) /\ \A i \in 1..Len(call.x_data) : CrossCov(i) = Zero) =>
        /\ ret.mu = Zero
        /\ ret.sigma = kernel(call.x_new, call.x_new, sigma_kernel, l, sigma_noise)

\* a call at the far query over two inputs, with signal, noise and a matrix that is
\* no inverse: the result is (0, sigma_kernel^2 + sigma_noise)
C6_Witness ==
    /\ Called /\ x = FarX /\ Len(X) = 2 /\ Y[1] /= Zero /\ Y[2] /= Zero
    /\ sigma_kernel = Rat(2) /\ sigma_noise = <<1, 2>> /\ l > 0
    /\ call.Kinv[1][2] /= Zero
    /\ \A i \in 1..2 : CrossCov(i) = Zero
    /\ ret.mu = Zero /\ ret.sigma = <<9, 2>>

Reorderings(n) == {p \in [1..n -> 1..n] : \A i \in 1..n : \E j \in 1..n : p[j] = i}

\* C7: with Kinv the inverse of the Gram matrix, the prediction is the same for every
\* reordering of the training pairs (targets reordered with the inputs, and the
\* inverse recomputed for the new order).
C7_PermutationInvariant ==
    (Called /\ IsInverse(call.Kinv, Gram)) =>
        \A p \in Reorderings(Len(call.x_data)) :
            LET xp == [i \in 1..Len(call.x_data) |-> call.x_data[p[i]]]
                yp == [i \in 1..Len(call.x_data) |-> call.y_data[p[i]]]
                Gp == compute_K(xp, sigma_kernel, l, sigma_noise)
            IN  /\ ~Singular(Gp)
                /\ GPpredict(call.x_new, xp, yp, MatInv(Gp)) = ret

\* a prediction near two different inputs with different targets, whose mean is
\* neither zero nor NaN
C7_Witness ==
    /\ Called /\ Len(X) = 2 /\ X[1] /= X[2] /\ Y[1] /= Y[2]
    /\ IsInverse(call.Kinv, Gram)
    /\ x /= FarX /\ x /= X[1] /\ sigma_kernel /= Zero
    /\ ~IsNaN(ret.mu) /\ ret.mu /= Zero

\* C8: whenever Kinv is the exact inverse of the Gram matrix under the parameters in
\* force (l /= 0), the variance GPpredict returns is not negative.
C8_VarianceNonNegative ==
    (Called /\ l /= 0 /\ IsInverse(call.Kinv, Gram)) => RNonNeg(ret.sigma)

\* a prediction off the training inputs with the exact inverse, whose variance is
\* positive and below the prior variance
C8_Witness ==
    /\ Called /\ l /= 0 /\ Len(X) = 2 /\ X[1] /= X[2] /\ IsInverse(call.Kinv, Gram)
    /\ x /= X[1] /\ x /= X[2] /\ x /= FarX
    /\ ret.sigma /= Zero /\ RNonNeg(ret.sigma)
    /\ ret.sigma /= kernel(x, x, sigma_kernel, l, sigma_noise)

-----------------------------------------------------------------------------
(* Parameter and input validation. *)

\* C9: with a length scale l <= 0 (zero or negative) no Gram matrix is built and no
\* kernel evaluation returns a value: the attempt fails with InvalidParameter.
C9_LengthScaleRejected ==
    (l <= 0 /\ Len(X) >= 1 /\ sigma_kernel /= Zero) =>
        /\ "K" \notin bound
        /\ ~Called
        /\ exc \in {"", "InvalidParameter"}

\* C10: GPpredict never returns a (mean, variance) pair for an empty training set:
\* the call is rejected with InvalidParameter.
C10_EmptyTrainingSetRejected ==
    (Len(X) = 0 /\ l > 0) => (~Called /\ exc \in {"", "InvalidParameter"})

-----------------------------------------------------------------------------
(* Singular Gram matrices. *)

\* the Gram matrix of the training inputs under the current parameters
GramX == compute_K(X, sigma_kernel, l, sigma_noise)

\* C11: when the Gram matrix of the training set is singular, the inversion fails
\* with an error raised to the caller (numpy's LinAlgError), Kinv is never bound
\* and no prediction is ever made from that matrix.
C11_SingularReported ==
    Singular(GramX) =>
        /\ "Kinv" \notin bound
        /\ ~Called
        /\ "K" \in bound => exc = "LinAlgError"

\* the inversion was attempted over a repeated input, with signal and noise, and
\* raised
C11_Witness ==
    /\ "K" \in bound /\ Len(X) = 2 /\ X[1] = X[2]
    /\ sigma_kernel /= Zero /\ sigma_noise /= Zero /\ l > 0
    /\ Singular(K) /\ exc = "LinAlgError" /\ ~Called

\* C17: when two training inputs at different indices are equal, then for l > 0
\* and sigma_noise >= 0 the rows of the Gram matrix at those indices are
\* identical (the noise term sits in K[i][j] as in K[i][i]), its determinant is
\* zero, no matrix is its inverse and the inversion raises.
C17_DuplicateInputsSingular ==
    ("K" \in bound /\ l > 0 /\ RNonNeg(sigma_noise)) =>
        \A i \in 1..Len(X) : \A j \in 1..Len(X) :
            (i /= j /\ X[i] = X[j]) =>
                /\ K[i] = K[j]
                /\ Det(K) = Zero
                /\ \A M \in AnyMatrices(Len(X)) : ~IsInverse(M, K)
                /\ exc = "LinAlgError" /\ "Kinv" \notin bound

\* a Gram matrix over a repeated input with noise: K[1][2] holds the noise term, as
\* K[1][1] does
C17_Witness ==
    /\ "K" \in bound /\ l > 0 /\ sigma_noise = <<1, 2>> /\ sigma_kernel = Rat(2)
    /\ Len(X) = 2 /\ X[1] = X[2]
    /\ K[1] = <<(<<9, 2>>), (<<9, 2>>)>> /\ K[1] = K[2] /\ exc = "LinAlgError"

-----------------------------------------------------------------------------
(* What GPpredict returns second. *)

\* C14: the second value GPpredict returns is the standard deviation: s >= 0 with
\* s * s = kernel(x_new, x_new) - K* . Kinv . K*^T.
C14_StandardDeviation ==
    (Called /\ Len(call.x_data) >= 1 /\ l > 0 /\ IsInverse(call.Kinv, Gram)) =>
        LET N == Len(call.y_data)
            Ks == [i \in 1..N |-> CrossCov(i)]
            prior == kernel(call.x_new, call.x_new, sigma_kernel, l, sigma_noise)
        IN  /\ RNonNeg(ret.sigma)
            /\ RMul(ret.sigma, ret.sigma) = RSub(prior, Bilinear(Ks, call.Kinv))

-----------------------------------------------------------------------------
(* shuffle_and_split (cell at lines 774-780). *)

\* most rows of a dataset
MaxM == 3
\* rows of digits.data and labels of digits.target, each row named by a number
RowVals == {0, 1}
LabelVals == {0, 1}

\* sklearn.utils.shuffle(A, B) indexes every array it is given with one random
\* permutation p of the rows and returns copies
shuffle(A, p) == [i \in 1..Len(A) |-> A[p[i]]]

\* np.split(A, [n]) is A[:n], A[n:]
np_split(A, n) ==
    LET k == IF n <= Len(A) THEN n ELSE Len(A)
    IN  <<SubSeq(A, 1, k), SubSeq(A, k + 1, Len(A))>>

\* shuffle_and_split with the labels left in their original order
shuffle_and_split_LabelsUnshuffled(Xs, ys, n, p) ==
    LET X0 == shuffle(Xs, p)
    IN  [Xtrain |-> np_split(X0, n)[1], ytrain |-> np_split(ys, n)[1],
         Xtest |-> np_split(X0, n)[2], ytest |-> np_split(ys, n)[2]]

\* shuffle_and_split(X, y, n) (lines 776-780), p the permutation shuffle draws
shuffle_and_split(Xs, ys, n, p) ==
    LET X0 == shuffle(Xs, p)
        y0 == shuffle(ys, p)
    IN  [Xtrain |-> np_split(X0, n)[1], ytrain |-> np_split(y0, n)[1],
         Xtest |-> np_split(X0, n)[2], ytest |-> np_split(y0, n)[2]]

\* Xtrain, ytrain, Xtest, ytest = shuffle_and_split(X,y,1000)  (line 794), with
\* any permutation drawn by shuffle; the cell can be run again
ShuffleAndSplit ==
    \E p \in Reorderings(Len(split.X)) :
        /\ split' = [split EXCEPT
                        !.out = shuffle_and_split(split.X, split.y, split.n, p)]
        /\ UNCHANGED <<sigma_kernel, l, sigma_noise, X, Y, x, K, Kinv,
                       bound, call, ret, exc, threads>>

\* the datasets and split points shuffle_and_split is called with
SplitCalls ==
    UNION {{[X |-> Xs, y |-> ys, n |-> n, out |-> <<>>] :
                ys \in [1..Len(Xs) -> LabelVals], n \in 0..(Len(Xs) + 1)} :
           Xs \in SeqsUpTo(RowVals, MaxM)}

\* the notebook with its dataset loaded (lines 757-758), before any split
InitSplit ==
    /\ sigma_kernel = Zero
    /\ l = 0
    /\ sigma_noise = Zero
    /\ X = <<>>
    /\ Y = <<>>
    /\ x = 0
    /\ K = <<>>
    /\ Kinv = <<>>
    /\ bound = {}
    /\ call = <<>>
    /\ ret = <<>>
    /\ exc = ""
    /\ threads = <<>>
    /\ split \in SplitCalls

SpecSplit == InitSplit /\ [][ShuffleAndSplit]_vars

\* C19: for a dataset of M rows and 0 <= n <= M, shuffle_and_split returns n
\* training rows and M - n test rows, inputs and labels alike, and the training
\* rows followed by the test rows are the input rows under one permutation that
\* is the same for X and for y: no row is lost or duplicated and every row keeps
\* its label.
C19_SplitIsPermutation ==
    (split /= <<>> /\ split.out /= <<>> /\ split.n <= Len(split.X)) =>
        LET M == Len(split.X)
            o == split.out
        IN  /\ Len(o.Xtrain) = split.n /\ Len(o.ytrain) = split.n
            /\ Len(o.Xtest) = M - split.n /\ Len(o.ytest) = M - split.n
            /\ \E p \in Reorderings(M) :
                  /\ o.Xtrain \o o.Xtest = [i \in 1..M |-> split.X[p[i]]]
                  /\ o.ytrain \o o.ytest = [i \in 1..M |-> split.y[p[i]]]

\* three rows, two of them the same row with different labels, split after the
\* first; the row that came first has moved to the test part with its label
C19_Witness ==
    /\ split /= <<>> /\ split.out /= <<>> /\ split.X = <<0, 1, 1>> /\ split.y = <<0, 0, 1>> /\ split.n = 1
    /\ split.out.Xtrain = <<1>> /\ split.out.ytrain = <<1>>
    /\ split.out.Xtest = <<1, 0>> /\ split.out.ytest = <<0, 0>>

-----------------------------------------------------------------------------
(* GPpredict statement by statement, called by several callers at once. *)

\* the callers that run GPpredict at the same time
Callers == {1, 2}

\* every caller's locals in one frame, as if Kstar, mu and sigma were globals
Frame_Shared(t) == 1

\* the frame that holds the locals (x_new, N, Kstar, i, mu, sigma) of caller t's
\* call: a Python call has a frame of its own
Frame(t) == t

globals == <<sigma_kernel, l, sigma_noise, X, Y, x, K, Kinv, bound, call, ret, exc, split>>

\* def GPpredict(x_new, x_data, y_data, Kinv): N = y_data.shape[0];
\* Kstar = np.zeros((1,N))  (lines 373-375); the loop of line 376 starts at i = 0
CallStep(t) ==
    /\ threads.pc[t] = "idle"
    /\ threads' = [threads EXCEPT
           !.pc[t] = "loop",
           !.frame[Frame(t)] = [x_new |-> threads.query[t], N |-> Len(Y),
                                Kstar |-> [i \in 1..Len(Y) |-> Zero], i |-> 0,
                                mu |-> <<>>, sigma |-> <<>>]]
    /\ UNCHANGED globals

\* Kstar[0,i] = kernel(x_data[i], x_new, sigma_kernel, l, sigma_noise)  (line 377)
LoopStep(t) ==
    LET f == threads.frame[Frame(t)]
    IN  /\ threads.pc[t] = "loop"
        /\ f.i < f.N
        /\ threads' = [threads EXCEPT
               !.frame[Frame(t)].Kstar[f.i + 1] =
                   kernel(X[f.i + 1], f.x_new, sigma_kernel, l, sigma_noise),
               !.frame[Frame(t)].i = f.i + 1]
        /\ UNCHANGED globals

\* the mean computed in place: np.matmul(Kinv, y_data, out=y_data), then Kstar @ y_data
MeanStep_InPlace(t) ==
    LET f == threads.frame[Frame(t)]
        KY == [i \in 1..Len(Y) |-> SumSeq([j \in 1..Len(Y) |-> RMul(Kinv[i][j], Y[j])])]
    IN  /\ threads.pc[t] = "loop"
        /\ f.i >= f.N
        /\ Y' = KY
        /\ threads' = [threads EXCEPT
               !.pc[t] = "var",
               !.frame[Frame(t)].mu = Dot(f.Kstar, KY)]
        /\ UNCHANGED <<sigma_kernel, l, sigma_noise, X, x, K, Kinv, bound, call, ret,
                       exc, split>>

\* the loop is over; mu = Kstar @ Kinv @ y_data  (line 378)
MeanStep(t) ==
    LET f == threads.frame[Frame(t)]
    IN  /\ threads.pc[t] = "loop"
        /\ f.i >= f.N
        /\ threads' = [threads EXCEPT
               !.pc[t] = "var",
               !.frame[Frame(t)].mu = Dot(VecMat(f.Kstar, Kinv, Len(Y)), Y)]
        /\ UNCHANGED globals

\* sigma = kernel(x_new,x_new,sigma_kernel,l,sigma_noise) - Kstar @ Kinv @ Kstar.T
\* (line 379)
VarStep(t) ==
    LET f == threads.frame[Frame(t)]
    IN  /\ threads.pc[t] = "var"
        /\ threads' = [threads EXCEPT
               !.pc[t] = "return",
               !.frame[Frame(t)].sigma =
                   RSub(kernel(f.x_new, f.x_new, sigma_kernel, l, sigma_noise),
                        Dot(VecMat(f.Kstar, Kinv, Len(Y)), f.Kstar))]
        /\ UNCHANGED globals

\* return mu, sigma  (line 380)
ReturnStep(t) ==
    LET f == threads.frame[Frame(t)]
    IN  /\ threads.pc[t] = "return"
        /\ threads' = [threads EXCEPT
               !.pc[t] = "done",
               !.ret[t] = [mu |-> f.mu, sigma |-> f.sigma]]
        /\ UNCHANGED globals

\* a matrix that is not symmetric, handed to every call as Kinv
SharedKinv(n) == [i \in 1..n |-> [j \in 1..n |-> Norm(i - 2 * j, j)]]

\* training data, parameters and Kinv are fixed; every caller has its query
InitThreads ==
    /\ sigma_kernel = Rat(2)
    /\ l = 2
    /\ sigma_noise = <<1, 2>>
    /\ X \in SeqsUpTo(XVals, MaxN)
    /\ Y \in [1..Len(X) -> {Rat(v) : v \in YVals}]
    /\ x = 0
    /\ K = <<>>
    /\ Kinv = SharedKinv(Len(X))
    /\ bound = {"Kinv"}
    /\ call = <<>>
    /\ ret = <<>>
    /\ exc = ""
    /\ threads \in [pc : [Callers -> {"idle"}], query : [Callers -> Queries],
                     frame : [Callers -> {<<>>}], ret : [Callers -> {<<>>}]]
    /\ split = <<>>

NextThreads ==
    \E t \in Callers :
        \/ CallStep(t)
        \/ LoopStep(t)
        \/ MeanStep(t)
        \/ VarStep(t)
        \/ ReturnStep(t)

SpecThreads == InitThreads /\ [][NextThreads]_vars

\* C13: queries predicted at the same time over the same training inputs, targets
\* and Kinv: whatever the interleaving of the calls' statements, each call returns
\* what it returns when run alone.
C13_InterleavingIndependent ==
    threads /= <<>> =>
        \A t \in Callers :
            threads.pc[t] = "done" =>
                threads.ret[t] = GPpredict(threads.query[t], X, Y, Kinv)

\* caller 1 has returned a mean that is not zero while caller 2, with another
\* query, is between two statements with another Kstar in its frame
C13_Witness ==
    /\ threads /= <<>> /\ Len(X) = 2
    /\ threads.query[1] /= threads.query[2]
    /\ threads.pc[1] = "done" /\ threads.pc[2] = "var"
    /\ threads.frame[2].Kstar /= threads.frame[1].Kstar
    /\ threads.ret[1] = GPpredict(threads.query[1], X, Y, Kinv)
    /\ threads.ret[1].mu /= Zero

\* C15: no statement of GPpredict changes Kinv, the training inputs, the targets
\* or the notebook's sigma_kernel, l and sigma_noise: a call writes its own locals
\* and nothing else.
C15_InputsUnchanged ==
    [][threads' /= threads =>
         UNCHANGED <<Kinv, X, Y, sigma_kernel, l, sigma_noise>>]_vars

\* a call over two training points has returned, with a variance that is not zero
C15_Witness ==
    /\ threads /= <<>> /\ Len(X) = 2 /\ Y[1] /= Y[2]
    /\ threads.pc[1] = "done" /\ threads.ret[1].sigma /= Zero
    /\ threads.ret[1].mu /= Zero

-----------------------------------------------------------------------------
(* The notebook's cells, executed and re-executed in any order. A cell runs to
   its end or to the first statement that raises. *)

\* sigma_kernel = 0.2, l = 0.3 (lines 279-280) and sigma_kernel = 3, l = 1 (lines
\* 368-369). The model keeps the second signal level and gives the first a
\* smaller one and a shorter length scale, as in the notebook, on the grid of
\* values its exact arithmetic covers.
ParamsFirst == [sigma_kernel |-> Rat(1), l |-> 3]
ParamsSecond == [sigma_kernel |-> Rat(3), l |-> 2]

\* the notebook after its data cell (lines 239-258): sigma_noise, X and Y are
\* bound, sigma_kernel and l are not (their values here stand for no value)
InitNotebook ==
    /\ sigma_kernel = Zero
    /\ l = 0
    /\ sigma_noise \in SigmaNoiseVals
    /\ X \in SeqsUpTo(XVals, MaxN)
    /\ Y \in [1..Len(X) -> {Rat(v) : v \in YVals}]
    /\ x \in Queries
    /\ K = <<>>
    /\ Kinv = <<>>
    /\ bound = {"sigma_noise", "X", "Y"}
    /\ call = <<>>
    /\ ret = <<>>
    /\ exc = ""
    /\ threads = <<>>
    /\ split = <<>>

\* sigma_kernel = 0.2; l = 0.3; def kernel(...)  (lines 279-282)
CellKernel ==
    /\ sigma_kernel' = ParamsFirst.sigma_kernel
    /\ l' = ParamsFirst.l
    /\ bound' = bound \cup {"sigma_kernel", "l", "kernel"}
    /\ exc' = ""
    /\ UNCHANGED <<sigma_noise, X, Y, x, K, Kinv, call, ret, threads, split>>

\* the exercise cell with the exercise done: it defines compute_K and GPpredict,
\* as the exercise asks (line 292)
CellExerciseSolved ==
    /\ bound' = bound \cup {"compute_K", "GPpredict"}
    /\ exc' = ""
    /\ UNCHANGED <<sigma_kernel, l, sigma_noise, X, Y, x, K, Kinv, call, ret, threads,
                   split>>

\* the exercise cell filled in
CellExercise_FilledIn == CellExerciseSolved

\* the exercise cell as shipped (lines 307-309): two comment lines, nothing is
\* defined
CellExerciseShipped ==
    /\ exc' = ""
    /\ UNCHANGED <<sigma_kernel, l, sigma_noise, X, Y, x, K, Kinv, bound, call, ret,
                   threads, split>>

\* GPpredict (lines 373-380) called while the notebook's sigma_kernel, l and
\* sigma_noise are sk, c and sn
GPpredictIn(x_new, x_data, y_data, Ki, sk, c, sn) ==
    LET N == Len(y_data)
        Kstar == [i \in 1..N |-> kernel(x_data[i], x_new, sk, c, sn)]
        mu == Dot(VecMat(Kstar, Ki, N), y_data)
        sigma == RSub(kernel(x_new, x_new, sk, c, sn), Dot(VecMat(Kstar, Ki, N), Kstar))
    IN  [mu |-> mu, sigma |-> sigma]

\* Kinv = np.linalg.inv(compute_K(X,sigma_kernel,l,sigma_noise)) and the prediction
\* loop after it (lines 323-329 and 371-386), with b the names bound when the
\* statement starts, sigma_kernel' and l' the parameters then in force, and
\* defines the names the cell binds between the inversion and the loop. An
\* unbound name raises NameError (compute_K is looked up first, and it calls
\* kernel once per pair of inputs), a singular matrix raises LinAlgError.
Experiment(b, defines) ==
    LET G == compute_K(X, sigma_kernel', l', sigma_noise)
        b2 == b \cup {"K", "Kinv"} \cup defines
    IN  IF \/ "compute_K" \notin b
           \/ ~({"sigma_kernel", "l"} \subseteq b)
           \/ (Len(X) >= 1 /\ "kernel" \notin b)
        THEN /\ exc' = "NameError"
             /\ bound' = b
             /\ UNCHANGED <<K, Kinv, call, ret>>
        ELSE IF Singular(G)
        THEN /\ exc' = "LinAlgError"
             /\ K' = G
             /\ bound' = b \cup {"K"}
             /\ UNCHANGED <<Kinv, call, ret>>
        ELSE /\ K' = G
             /\ Kinv' = MatInv(G)
             /\ bound' = b2
             /\ IF "GPpredict" \notin b2 \/ "kernel" \notin b2
                THEN /\ exc' = "NameError"
                     /\ UNCHANGED <<call, ret>>
                ELSE /\ call' = [x_new |-> x, x_data |-> X, y_data |-> Y, Kinv |-> Kinv']
                     /\ ret' = GPpredictIn(x, X, Y, Kinv', sigma_kernel', l', sigma_noise)
                     /\ exc' = ""

\* the first experiment cell (lines 323-342)
CellExperiment1 ==
    /\ UNCHANGED <<sigma_kernel, l, sigma_noise, X, Y, x, threads, split>>
    /\ Experiment(bound, {})

\* the second experiment cell without line 371: it predicts with the Kinv that
\* is already there
CellExperiment2_KeepsKinv ==
    /\ sigma_kernel' = ParamsSecond.sigma_kernel
    /\ l' = ParamsSecond.l
    /\ UNCHANGED <<sigma_noise, X, Y, x, K, Kinv, threads, split>>
    /\ IF "Kinv" \notin bound \/ "kernel" \notin bound
       THEN /\ exc' = "NameError"
            /\ bound' = bound \cup {"sigma_kernel", "l"}
            /\ UNCHANGED <<call, ret>>
       ELSE /\ bound' = bound \cup {"sigma_kernel", "l", "GPpredict"}
            /\ call' = [x_new |-> x, x_data |-> X, y_data |-> Y, Kinv |-> Kinv]
            /\ ret' = GPpredictIn(x, X, Y, Kinv, sigma_kernel', l', sigma_noise)
            /\ exc' = ""

\* the second experiment cell (lines 368-399): sigma_kernel = 3; l = 1; the
\* inversion; def GPpredict; the prediction loop
CellExperiment2 ==
    /\ sigma_kernel' = ParamsSecond.sigma_kernel
    /\ l' = ParamsSecond.l
    /\ UNCHANGED <<sigma_noise, X, Y, x, threads, split>>
    /\ Experiment(bound \cup {"sigma_kernel", "l"}, {"GPpredict"})

\* a call GPpredict(x, X, Y, Ki) of the user's own, once the names it needs are bound
DirectCall(Ki) ==
    /\ {"GPpredict", "kernel", "sigma_kernel", "l"} \subseteq bound
    /\ PredictWith(Ki)

NextNotebook ==
    \/ CellKernel
    \/ CellExerciseSolved
    \/ CellExperiment1
    \/ CellExperiment2

\* the notebook with the exercise done
SpecNotebook == InitNotebook /\ [][NextNotebook]_vars

NextNotebookCalls ==
    \/ NextNotebook
    \/ \E Ki \in AnyMatrices(Len(X)) : DirectCall(Ki)

\* the notebook with the exercise done, and calls of the user's own between cells
SpecNotebookCalls == InitNotebook /\ [][NextNotebookCalls]_vars

NextShipped ==
    \/ CellKernel
    \/ CellExerciseShipped
    \/ CellExperiment1
    \/ CellExperiment2

\* the notebook as shipped
SpecShipped == InitNotebook /\ [][NextShipped]_vars

\* C16: whatever the order in which cells are executed and re-executed, every
\* prediction a cell makes is made with the Kinv that is the inverse of the Gram
\* matrix of X under the sigma_kernel, l and sigma_noise in force at the call.
C16_KinvCurrent ==
    [][(exc' = "" /\ (CellExperiment1 \/ CellExperiment2)) =>
          LET G == compute_K(X', sigma_kernel', l', sigma_noise')
          IN  /\ call'.Kinv = Kinv'
              /\ ~Singular(G)
              /\ call'.Kinv = MatInv(G)
              /\ call'.x_new = x' /\ call'.x_data = X' /\ call'.y_data = Y'
              /\ ret' = GPpredictIn(x', X', Y', call'.Kinv,
                                    sigma_kernel', l', sigma_noise')]_vars

\* the second experiment cell has predicted under its own parameters, with the
\* inverse of the Gram matrix of two different inputs
C16_Witness ==
    /\ Called /\ exc = "" /\ Len(X) = 2 /\ X[1] /= X[2]
    /\ sigma_kernel = ParamsSecond.sigma_kernel /\ l = ParamsSecond.l
    /\ IsInverse(call.Kinv, GramX) /\ call.Kinv = Kinv
    /\ call.Kinv /= MatInv(compute_K(X, ParamsFirst.sigma_kernel, ParamsFirst.l,
                                      sigma_noise))

\* C12: two calls of GPpredict with identical arguments return identical results,
\* whatever was assigned to sigma_kernel, l and sigma_noise between them.
C12_PureFunction ==
    [][(Called /\ Len(call.x_data) >= 1 /\ call' = call) => ret' = ret]_vars

\* C18: in the notebook as shipped no cell binds compute_K, so every execution of
\* an experiment cell stops with a NameError at its compute_K call: no Gram
\* matrix is built, Kinv and GPpredict are never bound and no prediction is made.
C18_NeverPredicts ==
    [][/\ "compute_K" \notin bound' /\ "GPpredict" \notin bound'
       /\ "Kinv" \notin bound' /\ K' = <<>> /\ call' = <<>>
       /\ (CellExperiment1 \/ CellExperiment2) => exc' = "NameError"]_vars

\* the second experiment cell has run after the kernel cell: it assigned its
\* parameters and stopped at line 371
C18_Witness ==
    /\ exc = "NameError" /\ {"kernel", "sigma_kernel", "l"} \subseteq bound
    /\ sigma_kernel = ParamsSecond.sigma_kernel /\ l = ParamsSecond.l
    /\ Len(X) = 2 /\ ~Called /\ "GPpredict" \notin bound

====
